---------------------------- MODULE Spec2Model ----------------------------
(***************************************************************************)
(* A model of colortty's color module (src/src/color.rs): Color parsing    *)
(* and hex formatting, the two ColorScheme parsers (from_minttyrc and      *)
(* from_iterm) and the YAML serializer.                                    *)
(*                                                                         *)
(* Text is modelled at the character level: a string is a sequence of      *)
(* one-character strings, so that splitting, integer/float parsing and hex *)
(* formatting are computed the way the code computes them.  XML key names  *)
(* and the literal pieces of the YAML template are only ever compared for  *)
(* equality or copied and are kept as atomic strings.                      *)
(***************************************************************************)
EXTENDS Integers, Sequences, FiniteSets, TLC

VARIABLES
    op,       \* the entry point under execution
    s,        \* Color::from_string: the argument `s`
    self,     \* Color::to_hex: the receiver
    ret,      \* the Result returned by Color::from_string (NoRet before)
    hex,      \* the String returned by Color::to_hex (empty before)
    content,  \* from_minttyrc: the argument `content`
    root,     \* from_iterm: the Element the xml crate parsed `content` into
    pos,      \* index of the next loop iteration of the running parser
    scheme,   \* the local `scheme` of the running parser
    pc,       \* control state of the running parser
    outcome,  \* how the parser ended: NoOutcome, Returned or a panic
    yaml      \* the String returned by to_yaml (NoYaml before)

vars == <<op, s, self, ret, hex, content, root, pos, scheme, pc, outcome, yaml>>

-----------------------------------------------------------------------------
(* Bounds of the explored input space.                                     *)

MaxLen == 5        \* longest arbitrary from_string argument
MaxLines == 3      \* most lines of an arbitrary minttyrc input
MaxTop == 4        \* most children of an arbitrary iterm root dict
MaxDictLen == 3    \* most children of an arbitrary iterm color dict

-----------------------------------------------------------------------------
(* Characters and generic sequence helpers.                                *)

Digits == <<"0", "1", "2", "3", "4", "5", "6", "7", "8", "9">>

IsDigit(c) == \E i \in 1..10 : Digits[i] = c

\* char::to_digit(10) on a decimal digit
to_digit(c) == (CHOOSE i \in 1..10 : Digits[i] = c) - 1

\* All sequences over S of length at most n.
SeqsUpTo(S, n) == UNION {[1..k -> S] : k \in 0..n}

RECURSIVE Concat(_)
Concat(ss) == IF ss = <<>> THEN <<>> ELSE Head(ss) \o Concat(Tail(ss))

RECURSIVE Join(_, _)
Join(ss, sep) ==
    IF Len(ss) = 0 THEN <<>>
    ELSE IF Len(ss) = 1 THEN ss[1]
    ELSE ss[1] \o <<sep>> \o Join(Tail(ss), sep)

\* str::split(sep) for a one-character separator: from `start` on, the
\* text up to the next separator is a field and the search goes on behind
\* it; the text after the last separator is the last field (empty fields
\* included: "" splits into one empty field).
RECURSIVE split_from(_, _, _)
split_from(str, seps, start) ==
    IF \A i \in seps : i < start THEN <<SubSeq(str, start, Len(str))>>
    ELSE LET next == CHOOSE i \in seps : i >= start /\ \A j \in seps : j >= start => i <= j
         IN  <<SubSeq(str, start, next - 1)>> \o split_from(str, seps, next + 1)

split(str, sep) == split_from(str, {i \in 1..Len(str) : str[i] = sep}, 1)

-----------------------------------------------------------------------------
(* Results and errors.                                                     *)

Ok(v) == [tag |-> "Ok", val |-> v]
Err(e) == [tag |-> "Err", err |-> e]

\* enum ColorError
InvalidFormat == [kind |-> "InvalidFormat"]
ParseInt(e) == [kind |-> "ParseInt", cause |-> e]

-----------------------------------------------------------------------------
(* struct Color and its methods.                                           *)

U8Max == 255

MkColor(r, g, b) == [red |-> r, green |-> g, blue |-> b]

\* Color::default()
DefaultColor == MkColor(0, 0, 0)

\* <u8 as FromStr>::from_str, called by `s.parse()` in parse_int: an empty
\* string is Empty; one leading "+" is skipped ("+" and "-" alone are
\* InvalidDigit; u8 is unsigned, so a leading "-" is an invalid digit); then
\* digit by digit, a non-digit is InvalidDigit and an accumulator that
\* leaves the u8 range is PosOverflow.
RECURSIVE u8_digits(_, _, _)
u8_digits(str, i, acc) ==
    IF i > Len(str) THEN Ok(acc)
    ELSE IF ~IsDigit(str[i]) THEN Err("InvalidDigit")
    ELSE IF acc * 10 > U8Max THEN Err("PosOverflow")
    ELSE IF acc * 10 + to_digit(str[i]) > U8Max THEN Err("PosOverflow")
    ELSE u8_digits(str, i + 1, acc * 10 + to_digit(str[i]))

u8_from_str(str) ==
    IF Len(str) = 0 THEN Err("Empty")
    ELSE IF Len(str) = 1 /\ str[1] \in {"+", "-"} THEN Err("InvalidDigit")
    ELSE IF str[1] = "+" THEN u8_digits(str, 2, 0)
    ELSE u8_digits(str, 1, 0)

\* Color::parse_int
parse_int(str) ==
    LET r == u8_from_str(str)
    IN  IF r.tag = "Ok" THEN r ELSE Err(ParseInt(r.err))

\* A mutant of color_literal: green and blue swapped.
color_literal_swapped(red, green, blue) == MkColor(red, blue, green)

\* The struct literal of from_string: Color { red: red, green: green, blue: blue }
color_literal(red, green, blue) == MkColor(red, green, blue)

\* A mutant of field_count_ok: more than three fields pass.
field_count_at_least(rgb) == Len(rgb) >= 3

\* The guard of from_string: `rgb.len() != 3` returns InvalidFormat.
field_count_ok(rgb) == Len(rgb) = 3

\* Color::from_string
from_string(str) ==
    LET rgb == split(str, ",")
    IN  IF ~field_count_ok(rgb) THEN Err(InvalidFormat)
        ELSE LET red == parse_int(rgb[1])
             IN  IF red.tag = "Err" THEN red
                 ELSE LET green == parse_int(rgb[2])
                      IN  IF green.tag = "Err" THEN green
                          ELSE LET blue == parse_int(rgb[3])
                               IN  IF blue.tag = "Err" THEN blue
                                   ELSE Ok(color_literal(red.val, green.val, blue.val))

HexDigits ==
    <<"0", "1", "2", "3", "4", "5", "6", "7", "8", "9", "a", "b", "c", "d", "e", "f">>

\* The `x` format of an integer: lowercase hexadecimal, no leading zeros.
RECURSIVE lower_hex(_)
lower_hex(n) ==
    IF n < 16 THEN <<HexDigits[n + 1]>>
    ELSE Append(lower_hex(n \div 16), HexDigits[(n % 16) + 1])

RECURSIVE pad_left(_, _, _)
pad_left(str, width, fill) ==
    IF Len(str) >= width THEN str ELSE pad_left(<<fill>> \o str, width, fill)

\* A mutant of fmt_02x: the zero flag dropped, so `>2` pads with spaces.
fmt_02x_space_fill(n) == pad_left(lower_hex(n), 2, " ")

\* The `{:>02x}` format of a u8: the 0 flag pads with zeros after the sign,
\* to width 2, whatever the alignment asks.
fmt_02x(n) == pad_left(lower_hex(n), 2, "0")

\* Color::to_hex
to_hex(c) == <<"0", "x">> \o fmt_02x(c.red) \o fmt_02x(c.green) \o fmt_02x(c.blue)

-----------------------------------------------------------------------------
(* struct ColorScheme.                                                     *)

Slots ==
    {"foreground", "background",
     "black", "red", "green", "yellow", "blue", "magenta", "cyan", "white",
     "bright_black", "bright_red", "bright_green", "bright_yellow",
     "bright_blue", "bright_magenta", "bright_cyan", "bright_white"}

\* ColorScheme::default()
DefaultScheme == [k \in Slots |-> DefaultColor]

\* How a parser ends: it returns its scheme, or it panics at a site (with
\* the ColorError an unwrap() found, where there is one).
NoOutcome == [kind |-> "None"]
Returned == [kind |-> "Returned"]
Panic(site) == [kind |-> "Panic", site |-> site]
PanicUnwrap(e) == [kind |-> "Panic", site |-> "unwrap", err |-> e]

-----------------------------------------------------------------------------
(* ColorScheme::from_minttyrc.                                             *)

\* The color names of the match in from_minttyrc, as text.
N_ForegroundColour == <<"F", "o", "r", "e", "g", "r", "o", "u", "n", "d", "C", "o", "l", "o", "u", "r">>
N_BackgroundColour == <<"B", "a", "c", "k", "g", "r", "o", "u", "n", "d", "C", "o", "l", "o", "u", "r">>
N_Black == <<"B", "l", "a", "c", "k">>
N_Red == <<"R", "e", "d">>
N_Green == <<"G", "r", "e", "e", "n">>
N_Yellow == <<"Y", "e", "l", "l", "o", "w">>
N_Blue == <<"B", "l", "u", "e">>
N_Magenta == <<"M", "a", "g", "e", "n", "t", "a">>
N_Cyan == <<"C", "y", "a", "n">>
N_White == <<"W", "h", "i", "t", "e">>
N_BoldRed == <<"B", "o", "l", "d", "R", "e", "d">>
N_BoldBlack == <<"B", "o", "l", "d", "B", "l", "a", "c", "k">>
N_BoldGreen == <<"B", "o", "l", "d", "G", "r", "e", "e", "n">>
N_BoldYellow == <<"B", "o", "l", "d", "Y", "e", "l", "l", "o", "w">>
N_BoldBlue == <<"B", "o", "l", "d", "B", "l", "u", "e">>
N_BoldMagenta == <<"B", "o", "l", "d", "M", "a", "g", "e", "n", "t", "a">>
N_BoldCyan == <<"B", "o", "l", "d", "C", "y", "a", "n">>
N_BoldWhite == <<"B", "o", "l", "d", "W", "h", "i", "t", "e">>

\* A mutant of minttyrc_arms: the BoldRed and BoldBlack arms assign each
\* other's slot.
minttyrc_arms_swapped ==
    <<<<N_ForegroundColour, "foreground">>,
      <<N_BackgroundColour, "background">>,
      <<N_Black, "black">>,
      <<N_Red, "red">>,
      <<N_Green, "green">>,
      <<N_Yellow, "yellow">>,
      <<N_Blue, "blue">>,
      <<N_Magenta, "magenta">>,
      <<N_Cyan, "cyan">>,
      <<N_White, "white">>,
      <<N_BoldRed, "bright_black">>,
      <<N_BoldBlack, "bright_red">>,
      <<N_BoldGreen, "bright_green">>,
      <<N_BoldYellow, "bright_yellow">>,
      <<N_BoldBlue, "bright_blue">>,
      <<N_BoldMagenta, "bright_magenta">>,
      <<N_BoldCyan, "bright_cyan">>,
      <<N_BoldWhite, "bright_white">>>>

\* The arms of `match name`: the name matched and the slot assigned.
minttyrc_arms ==
    <<<<N_ForegroundColour, "foreground">>,
      <<N_BackgroundColour, "background">>,
      <<N_Black, "black">>,
      <<N_Red, "red">>,
      <<N_Green, "green">>,
      <<N_Yellow, "yellow">>,
      <<N_Blue, "blue">>,
      <<N_Magenta, "magenta">>,
      <<N_Cyan, "cyan">>,
      <<N_White, "white">>,
      <<N_BoldRed, "bright_red">>,
      <<N_BoldBlack, "bright_black">>,
      <<N_BoldGreen, "bright_green">>,
      <<N_BoldYellow, "bright_yellow">>,
      <<N_BoldBlue, "bright_blue">>,
      <<N_BoldMagenta, "bright_magenta">>,
      <<N_BoldCyan, "bright_cyan">>,
      <<N_BoldWhite, "bright_white">>>>

\* The slot the match assigns for `name`, "" for the `_` arm.
minttyrc_slot(name) ==
    IF \E i \in 1..Len(minttyrc_arms) : minttyrc_arms[i][1] = name
    THEN minttyrc_arms[CHOOSE i \in 1..Len(minttyrc_arms) : minttyrc_arms[i][1] = name][2]
    ELSE ""

NL == "\n"
CR == "\r"

\* str::lines(): the text between line feeds, without a final empty line,
\* each line without its trailing carriage return.
strip_cr(line) ==
    IF Len(line) > 0 /\ line[Len(line)] = CR THEN SubSeq(line, 1, Len(line) - 1) ELSE line

RECURSIVE strip_each(_)
strip_each(ls) == IF ls = <<>> THEN <<>> ELSE <<strip_cr(Head(ls))>> \o strip_each(Tail(ls))

lines(str) ==
    LET parts == split(str, NL)
    IN  strip_each(IF parts[Len(parts)] = <<>> THEN SubSeq(parts, 1, Len(parts) - 1) ELSE parts)

\* A mutant of minttyrc_line: an unmatched name is skipped, as from_iterm does.
minttyrc_line_skip_unknown(sch, line) ==
    LET components == split(line, "=")
    IN  IF Len(components) # 2 THEN Err(Panic("Invalid line"))
        ELSE LET name == components[1]
                 color == from_string(components[2])
             IN  IF color.tag = "Err" THEN Err(PanicUnwrap(color.err))
                 ELSE IF minttyrc_slot(name) = "" THEN Ok(sch)
                 ELSE Ok([sch EXCEPT ![minttyrc_slot(name)] = color.val])

\* One iteration of `for line in content.lines()`: the scheme after the
\* line, or the panic that ends the parse.
minttyrc_line(sch, line) ==
    LET components == split(line, "=")
    IN  IF Len(components) # 2 THEN Err(Panic("Invalid line"))
        ELSE LET name == components[1]
                 color == from_string(components[2])
             IN  IF color.tag = "Err" THEN Err(PanicUnwrap(color.err))
                 ELSE IF minttyrc_slot(name) = "" THEN Err(Panic("Invalid color name"))
                 ELSE Ok([sch EXCEPT ![minttyrc_slot(name)] = color.val])

\* The whole loop over the lines `ls` from index i on, as a function.
RECURSIVE minttyrc_loop(_, _, _)
minttyrc_loop(sch, ls, i) ==
    IF i > Len(ls) THEN Ok(sch)
    ELSE LET r == minttyrc_line(sch, ls[i])
         IN  IF r.tag = "Err" THEN r ELSE minttyrc_loop(r.val, ls, i + 1)

-----------------------------------------------------------------------------
(* ColorScheme::to_yaml.                                                   *)

\* A mutant of to_yaml_args: background and foreground handed over in the
\* order the struct declares them.
to_yaml_args_struct_order ==
    <<"foreground", "background",
      "black", "red", "green", "yellow", "blue", "magenta", "cyan", "white",
      "bright_black", "bright_red", "bright_green", "bright_yellow",
      "bright_blue", "bright_magenta", "bright_cyan", "bright_white">>

\* The arguments of the format! in to_yaml, in order.
to_yaml_args ==
    <<"background", "foreground",
      "black", "red", "green", "yellow", "blue", "magenta", "cyan", "white",
      "bright_black", "bright_red", "bright_green", "bright_yellow",
      "bright_blue", "bright_magenta", "bright_cyan", "bright_white">>

\* The literal text of the format string before each `{}`.
to_yaml_literals ==
    <<"colors:\n  # Default colors\n  primary:\n    background: '",
      "'\n    foreground: '",
      "'\n\n  # Normal colors\n  normal:\n    black:   '",
      "'\n    red:     '",
      "'\n    green:   '",
      "'\n    yellow:  '",
      "'\n    blue:    '",
      "'\n    magenta: '",
      "'\n    cyan:    '",
      "'\n    white:   '",
      "'\n\n  # Bright colors\n  bright:\n    black:   '",
      "'\n    red:     '",
      "'\n    green:   '",
      "'\n    yellow:  '",
      "'\n    blue:    '",
      "'\n    magenta: '",
      "'\n    cyan:    '",
      "'\n    white:   '">>

\* The literal text after the last `{}`.
to_yaml_tail == "'\n"

\* The String to_yaml returns, as the pieces format! concatenates: each
\* literal followed by the to_hex() of its argument, then the tail.
to_yaml(sch) ==
    [pieces |-> [i \in 1..Len(to_yaml_args) |->
                    [literal |-> to_yaml_literals[i],
                     arg |-> to_hex(sch[to_yaml_args[i]])]],
     tail |-> to_yaml_tail]

NoYaml == [pieces |-> <<>>, tail |-> ""]

-----------------------------------------------------------------------------
(* The xml crate's tree, as from_iterm reads it.                           *)

\* Xml::ElementNode(Element { name, children, .. })
Elem(name, children) == [kind |-> "element", name |-> name, text |-> <<>>, children |-> children]

\* Xml::CharacterNode(text)
Chars(text) == [kind |-> "characters", name |-> "", text |-> text, children |-> <<>>]

IsElemNamed(node, name) == node.kind = "element" /\ node.name = name

\* Element::get_children(name, None): the child elements of that name, in order.
get_children(element, name) ==
    SelectSeq(element.children, LAMBDA node : IsElemNamed(node, name))

\* extract_text: the text of the first child; a panic when there is no
\* first child (the index is out of bounds) or it is not a character node.
extract_text(element) ==
    IF Len(element.children) = 0 THEN Err(Panic("index out of bounds"))
    ELSE IF element.children[1].kind # "characters" THEN Err(Panic("Not an chracter node"))
    ELSE Ok(element.children[1].text)

-----------------------------------------------------------------------------
(* f32 parsing and the cast to u8.                                         *)

RECURSIVE Pow10(_)
Pow10(n) == IF n = 0 THEN 1 ELSE 10 * Pow10(n - 1)

RECURSIVE digits_value(_, _, _)
digits_value(str, i, acc) ==
    IF i > Len(str) THEN acc ELSE digits_value(str, i + 1, acc * 10 + to_digit(str[i]))

AllDigits(str) == \A i \in 1..Len(str) : IsDigit(str[i])

\* The errors of the two other unwrap() calls of from_iterm.
ParseFloatError == [kind |-> "ParseFloatError"]
XmlParseError == [kind |-> "XmlParseError"]

\* <f32 as FromStr>::from_str on text over digits, ".", "+", "-" and letters
\* other than those of an exponent, "inf" or "nan" (the texts the inputs
\* below are drawn from): Sign? (Digit+ | Digit+ "." Digit* | Digit* "." Digit+).
\* The value is kept exactly, as sign * num / den with den a power of ten.
f32_from_str(str) ==
    LET signed == Len(str) > 0 /\ str[1] \in {"+", "-"}
        neg == Len(str) > 0 /\ str[1] = "-"
        body == IF signed THEN SubSeq(str, 2, Len(str)) ELSE str
        parts == split(body, ".")
    IN  IF Len(parts) > 2 \/ ~(\A k \in 1..Len(parts) : AllDigits(parts[k]))
        THEN Err(ParseFloatError)
        ELSE IF Len(parts) = 1 THEN
            IF Len(parts[1]) = 0 THEN Err(ParseFloatError)
            ELSE Ok([neg |-> neg, num |-> digits_value(parts[1], 1, 0), den |-> 1])
        ELSE IF Len(parts[1]) = 0 /\ Len(parts[2]) = 0 THEN Err(ParseFloatError)
        ELSE Ok([neg |-> neg,
                 num |-> digits_value(parts[1] \o parts[2], 1, 0),
                 den |-> Pow10(Len(parts[2]))])

\* A mutant of scale_to_u8: the product rounded to nearest, not truncated.
scale_to_u8_rounded(v) ==
    LET q == (2 * v.num * 255 + v.den) \div (2 * v.den)
    IN  IF v.neg THEN 0 ELSE IF q > U8Max THEN U8Max ELSE q

\* `(real_value * 255.0) as u8`: the product truncated toward zero and
\* saturated to the u8 range.  For the values drawn below (at most three
\* decimals, in [0, 1]) the f32 product truncates as the exact one does.
scale_to_u8(v) ==
    LET q == (v.num * 255) \div v.den
    IN  IF v.neg THEN 0 ELSE IF q > U8Max THEN U8Max ELSE q

-----------------------------------------------------------------------------
(* ColorScheme::from_iterm.                                                *)

\* The arms of `match color_name`: the name matched and the slot assigned.
iterm_arms ==
    <<<<<<"A", "n", "s", "i", " ", "0", " ", "C", "o", "l", "o", "r">>, "black">>,
      <<<<"A", "n", "s", "i", " ", "1", " ", "C", "o", "l", "o", "r">>, "red">>,
      <<<<"A", "n", "s", "i", " ", "2", " ", "C", "o", "l", "o", "r">>, "green">>,
      <<<<"A", "n", "s", "i", " ", "3", " ", "C", "o", "l", "o", "r">>, "yellow">>,
      <<<<"A", "n", "s", "i", " ", "4", " ", "C", "o", "l", "o", "r">>, "blue">>,
      <<<<"A", "n", "s", "i", " ", "5", " ", "C", "o", "l", "o", "r">>, "magenta">>,
      <<<<"A", "n", "s", "i", " ", "6", " ", "C", "o", "l", "o", "r">>, "cyan">>,
      <<<<"A", "n", "s", "i", " ", "7", " ", "C", "o", "l", "o", "r">>, "white">>,
      <<<<"A", "n", "s", "i", " ", "8", " ", "C", "o", "l", "o", "r">>, "bright_black">>,
      <<<<"A", "n", "s", "i", " ", "9", " ", "C", "o", "l", "o", "r">>, "bright_red">>,
      <<<<"A", "n", "s", "i", " ", "1", "0", " ", "C", "o", "l", "o", "r">>, "bright_green">>,
      <<<<"A", "n", "s", "i", " ", "1", "1", " ", "C", "o", "l", "o", "r">>, "bright_yellow">>,
      <<<<"A", "n", "s", "i", " ", "1", "2", " ", "C", "o", "l", "o", "r">>, "bright_blue">>,
      <<<<"A", "n", "s", "i", " ", "1", "3", " ", "C", "o", "l", "o", "r">>, "bright_magenta">>,
      <<<<"A", "n", "s", "i", " ", "1", "4", " ", "C", "o", "l", "o", "r">>, "bright_cyan">>,
      <<<<"A", "n", "s", "i", " ", "1", "5", " ", "C", "o", "l", "o", "r">>, "bright_white">>,
      <<<<"B", "a", "c", "k", "g", "r", "o", "u", "n", "d", " ", "C", "o", "l", "o", "r">>, "background">>,
      <<<<"F", "o", "r", "e", "g", "r", "o", "u", "n", "d", " ", "C", "o", "l", "o", "r">>, "foreground">>>>

\* The slot the match assigns for `color_name`, "" for the `_` arm.
iterm_slot(color_name) ==
    IF \E i \in 1..Len(iterm_arms) : iterm_arms[i][1] = color_name
    THEN iterm_arms[CHOOSE i \in 1..Len(iterm_arms) : iterm_arms[i][1] = color_name][2]
    ELSE ""

\* The arms of `match component_name`: the field of `color` assigned.
component_field(component_name) ==
    CASE component_name = <<"R", "e", "d", " ", "C", "o", "m", "p", "o", "n", "e", "n", "t">> -> "red"
      [] component_name = <<"G", "r", "e", "e", "n", " ", "C", "o", "m", "p", "o", "n", "e", "n", "t">> -> "green"
      [] component_name = <<"B", "l", "u", "e", " ", "C", "o", "m", "p", "o", "n", "e", "n", "t">> -> "blue"
      [] OTHER -> ""

Min(a, b) == IF a < b THEN a ELSE b

\* Iterator::zip: the pairs up to the end of the shorter sequence.
zip(xs, ys) == [i \in 1..Min(Len(xs), Len(ys)) |-> <<xs[i], ys[i]>>]

\* One iteration of the inner loop over color_keys.zip(color_values).
iterm_component(color, color_key, color_value) ==
    LET component_name == extract_text(color_key)
    IN  IF component_name.tag = "Err" THEN component_name
        ELSE LET text == extract_text(color_value)
             IN  IF text.tag = "Err" THEN text
                 ELSE LET real_value == f32_from_str(text.val)
                      IN  IF real_value.tag = "Err" THEN Err(PanicUnwrap(real_value.err))
                          ELSE IF component_field(component_name.val) = ""
                          THEN Err(Panic("Invalid color component name"))
                          ELSE Ok([color EXCEPT ![component_field(component_name.val)] =
                                                    scale_to_u8(real_value.val)])

RECURSIVE iterm_components(_, _, _)
iterm_components(color, pairs, i) ==
    IF i > Len(pairs) THEN Ok(color)
    ELSE LET r == iterm_component(color, pairs[i][1], pairs[i][2])
         IN  IF r.tag = "Err" THEN r ELSE iterm_components(r.val, pairs, i + 1)

\* One iteration of the outer loop over keys.zip(values): the scheme after
\* the pair, or the panic that ends the parse.
iterm_entry(sch, key, value) ==
    LET color_name == extract_text(key)
    IN  IF color_name.tag = "Err" THEN color_name
        ELSE LET color == iterm_components(DefaultColor,
                              zip(get_children(value, "key"), get_children(value, "real")), 1)
             IN  IF color.tag = "Err" THEN color
                 ELSE IF iterm_slot(color_name.val) = "" THEN Ok(sch)
                 ELSE Ok([sch EXCEPT ![iterm_slot(color_name.val)] = color.val])

\* `content.parse().unwrap()` failed: the xml crate found no element.
XmlError == [kind |-> "xml error", name |-> "", text |-> <<>>, children |-> <<>>]

\* The (key, value) pairs the outer loop iterates over.
iterm_pairs(root_dict) == zip(get_children(root_dict, "key"), get_children(root_dict, "dict"))

RECURSIVE iterm_loop(_, _, _)
iterm_loop(sch, pairs, i) ==
    IF i > Len(pairs) THEN Ok(sch)
    ELSE LET r == iterm_entry(sch, pairs[i][1], pairs[i][2])
         IN  IF r.tag = "Err" THEN r ELSE iterm_loop(r.val, pairs, i + 1)

\* from_iterm as a function of the parsed document.
from_iterm(doc) ==
    IF doc = XmlError THEN Err(PanicUnwrap(XmlParseError))
    ELSE IF Len(get_children(doc, "dict")) = 0 THEN Err(Panic("unwrap on None"))
    ELSE iterm_loop(DefaultScheme, iterm_pairs(get_children(doc, "dict")[1]), 1)

-----------------------------------------------------------------------------
(* Inputs.                                                                 *)

\* The decimal text of a natural number.
RECURSIVE to_dec(_)
to_dec(n) == IF n < 10 THEN <<Digits[n + 1]>> ELSE Append(to_dec(n \div 10), Digits[(n % 10) + 1])

\* Channel values at the edges of the digit counts and of the range.
EdgeChannels == {0, 4, 9, 10, 12, 15, 16, 99, 100, 123, 199, 200, 249, 250, 255}

\* Colors: every channel value once per channel, and the cube of two edges.
ColorInputs ==
    {MkColor(n, (n * 7 + 85) % 256, (255 - n)) : n \in 0..U8Max}
        \cup {MkColor(r, g, b) : r \in {0, 255}, g \in {0, 255}, b \in {0, 255}}
        \cup {MkColor(12, 3, 255), MkColor(123, 4, 255), MkColor(1, 16, 0), MkColor(17, 0, 0)}

\* Fields that parse as u8, written plainly, with a leading zero and with
\* a leading plus sign.
GoodFields ==
    {to_dec(n) : n \in EdgeChannels}
        \cup {<<"0">> \o to_dec(n) : n \in {0, 7, 255}}
        \cup {<<"+">> \o to_dec(n) : n \in {0, 255}}

\* Fields that do not.
BadFields ==
    {<<>>, <<"+">>, <<"-">>, <<"-", "1">>, <<"-", "0">>, <<"2", "5", "6">>,
     <<"3", "0", "0">>, <<"1", "0", "0", "0">>, <<"a", "b", "c">>, <<"f", "o">>,
     <<"1", "a">>, <<" ", "1">>, <<"1", ".", "5">>, <<"0", "x", "1">>}

\* from_string arguments: every text of at most MaxLen characters over a
\* small alphabet, every "R,G,B" of a ColorInputs color, and one to four
\* fields drawn from a few good and bad ones.
StringAlphabet == {"0", "2", "5", "6", ",", "+", "a"}

FewFields ==
    {<<"0">>, <<"1", "2">>, <<"2", "5", "5">>, <<"0", "0", "7">>, <<"+", "3">>}
        \cup BadFields

StringInputs ==
    SeqsUpTo(StringAlphabet, MaxLen)
        \cup {Join(<<to_dec(c.red), to_dec(c.green), to_dec(c.blue)>>, ",") : c \in ColorInputs}
        \cup {Join(<<a, b, c>>, ",") : a \in GoodFields, b \in {<<"3">>, <<"2", "5", "5">>}, c \in GoodFields}
        \cup {Join(fs, ",") : fs \in UNION {[1..k -> FewFields] : k \in 1..3}}
        \cup {Join(fs, ",") : fs \in [1..4 -> {<<>>, <<"1">>, <<"a">>}]}

-----------------------------------------------------------------------------
(* The Color operations as a state machine.                                *)

NoRet == [tag |-> "None"]
NoRoot == [kind |-> "none", name |-> "", text |-> <<>>, children |-> <<>>]

InitColor ==
    /\ op \in {"from_string", "to_hex"}
    /\ IF op = "from_string"
       THEN s \in StringInputs /\ self = DefaultColor
       ELSE s = <<>> /\ self \in ColorInputs
    /\ ret = NoRet
    /\ hex = <<>>
    /\ content = <<>>
    /\ root = NoRoot
    /\ pos = 0
    /\ scheme = DefaultScheme
    /\ pc = "call"
    /\ outcome = NoOutcome
    /\ yaml = NoYaml

\* Color::from_string(s)
FromString ==
    /\ op = "from_string"
    /\ pc = "call"
    /\ ret' = from_string(s)
    /\ pc' = "done"
    /\ UNCHANGED <<op, s, self, hex, content, root, pos, scheme, outcome, yaml>>

\* self.to_hex()
ToHex ==
    /\ op = "to_hex"
    /\ pc = "call"
    /\ hex' = to_hex(self)
    /\ pc' = "done"
    /\ UNCHANGED <<op, s, self, ret, content, root, pos, scheme, outcome, yaml>>

NextColor == FromString \/ ToHex

SpecColor == InitColor /\ [][NextColor]_vars

-----------------------------------------------------------------------------
(* Inputs of from_minttyrc.                                                *)

\* The colors of the Dracula scheme the tests convert, as "R,G,B", in the
\* order of the arms of the match of from_minttyrc.
MinttyPalette ==
    <<<<"2", "4", "8", ",", "2", "4", "8", ",", "2", "4", "2">>,
      <<"4", "0", ",", "4", "2", ",", "5", "4">>,
      <<"0", ",", "0", ",", "0">>,
      <<"2", "5", "5", ",", "8", "5", ",", "8", "5">>,
      <<"8", "0", ",", "2", "5", "0", ",", "1", "2", "3">>,
      <<"2", "4", "1", ",", "2", "5", "0", ",", "1", "4", "0">>,
      <<"2", "0", "2", ",", "1", "6", "9", ",", "2", "5", "0">>,
      <<"2", "5", "5", ",", "1", "2", "1", ",", "1", "9", "8">>,
      <<"1", "3", "9", ",", "2", "3", "3", ",", "2", "5", "3">>,
      <<"1", "9", "1", ",", "1", "9", "1", ",", "1", "9", "1">>,
      <<"2", "5", "5", ",", "1", "1", "0", ",", "1", "0", "3">>,
      <<"4", "0", ",", "4", "2", ",", "5", "3">>,
      <<"9", "0", ",", "2", "4", "7", ",", "1", "4", "2">>,
      <<"2", "4", "4", ",", "2", "4", "9", ",", "1", "5", "7">>,
      <<"2", "0", "2", ",", "1", "6", "9", ",", "2", "5", "0">>,
      <<"2", "5", "5", ",", "1", "4", "6", ",", "2", "0", "8">>,
      <<"1", "5", "4", ",", "2", "3", "7", ",", "2", "5", "4">>,
      <<"2", "3", "0", ",", "2", "3", "0", ",", "2", "3", "0">>>>

\* A name the match does not know.
N_Pink == <<"P", "i", "n", "k">>

MinttyLineOf(name, value) == name \o <<"=">> \o value

\* A file naming every color once: the names in the order of the match
\* rotated by `rot` (reversed when `rev`), the i-th name with the
\* (i + shift)-th palette value, lines ended by `eol`, the last one too
\* when `last`.
FullFile(rot, rev, shift, eol, last) ==
    LET n == Len(minttyrc_arms)
        at(i) == LET j == ((i - 1 + rot) % n) + 1 IN IF rev THEN n + 1 - j ELSE j
        line(i) == MinttyLineOf(minttyrc_arms[at(i)][1], MinttyPalette[((at(i) - 1 + shift) % n) + 1])
    IN  Concat([i \in 1..n |-> line(i) \o (IF i < n \/ last THEN eol ELSE <<>>)])

FullFiles ==
    {FullFile(rot, rev, shift, eol, last) :
        rot \in {0, 1, 7}, rev \in BOOLEAN, shift \in {0, 1, 7},
        eol \in {<<NL>>, <<CR, NL>>}, last \in BOOLEAN}

\* Lines of short files: good ones, and ones with each kind of error.
V_1_2_3 == <<"1", ",", "2", ",", "3">>
V_255_0_16 == <<"2", "5", "5", ",", "0", ",", "1", "6">>
V_a_2_3 == <<"a", ",", "2", ",", "3">>
V_1_2 == <<"1", ",", "2">>

ShortLines ==
    {MinttyLineOf(N_Red, V_1_2_3), MinttyLineOf(N_Red, V_255_0_16),
     MinttyLineOf(N_BoldRed, V_1_2_3), MinttyLineOf(N_BoldRed, V_255_0_16),
     MinttyLineOf(N_Pink, V_1_2_3), MinttyLineOf(N_Pink, V_a_2_3), MinttyLineOf(N_Pink, V_1_2),
     MinttyLineOf(N_Red, V_a_2_3), MinttyLineOf(N_Red, V_1_2),
     N_Red, MinttyLineOf(N_Red, V_1_2 \o <<"=", "3">>)}

\* Every file of at most MaxLines short lines.
ShortFiles == {Join(ls, NL) : ls \in SeqsUpTo(ShortLines, MaxLines)}

-----------------------------------------------------------------------------
(* from_minttyrc and to_yaml as a state machine.                           *)

InitMintty ==
    /\ op = "from_minttyrc"
    /\ s = <<>>
    /\ self = DefaultColor
    /\ ret = NoRet
    /\ hex = <<>>
    /\ content \in FullFiles \cup ShortFiles
    /\ root = NoRoot
    /\ pos = 1
    /\ scheme = DefaultScheme
    /\ pc = "loop"
    /\ outcome = NoOutcome
    /\ yaml = NoYaml

\* The body of `for line in content.lines()`, once.
MinttyLine ==
    /\ op = "from_minttyrc"
    /\ pc = "loop"
    /\ pos <= Len(lines(content))
    /\ LET r == minttyrc_line(scheme, lines(content)[pos])
       IN  IF r.tag = "Ok"
           THEN /\ scheme' = r.val
                /\ pos' = pos + 1
                /\ UNCHANGED <<pc, outcome>>
           ELSE /\ pc' = "panicked"
                /\ outcome' = r.err
                /\ UNCHANGED <<scheme, pos>>
    /\ UNCHANGED <<op, s, self, ret, hex, content, root, yaml>>

\* The loop is over: from_minttyrc returns `scheme`.
MinttyReturn ==
    /\ op = "from_minttyrc"
    /\ pc = "loop"
    /\ pos > Len(lines(content))
    /\ pc' = "returned"
    /\ outcome' = Returned
    /\ UNCHANGED <<op, s, self, ret, hex, content, root, pos, scheme, yaml>>

\* scheme.to_yaml() on the returned scheme.
ToYaml ==
    /\ pc = "returned"
    /\ yaml' = to_yaml(scheme)
    /\ pc' = "rendered"
    /\ UNCHANGED <<op, s, self, ret, hex, content, root, pos, scheme, outcome>>

NextMintty == MinttyLine \/ MinttyReturn \/ ToYaml

SpecMintty == InitMintty /\ [][NextMintty]_vars

-----------------------------------------------------------------------------
(* Inputs of from_iterm.                                                   *)

T_Ansi4 == <<"A", "n", "s", "i", " ", "4", " ", "C", "o", "l", "o", "r">>
T_Cursor == <<"C", "u", "r", "s", "o", "r", " ", "C", "o", "l", "o", "r">>
T_Red == <<"R", "e", "d", " ", "C", "o", "m", "p", "o", "n", "e", "n", "t">>
T_Green == <<"G", "r", "e", "e", "n", " ", "C", "o", "m", "p", "o", "n", "e", "n", "t">>
T_Blue == <<"B", "l", "u", "e", " ", "C", "o", "m", "p", "o", "n", "e", "n", "t">>
T_Alpha == <<"A", "l", "p", "h", "a", " ", "C", "o", "m", "p", "o", "n", "e", "n", "t">>
T_sRGB == <<"s", "R", "G", "B">>

R_0792 == <<"0", ".", "7", "9", "2">>
R_0663 == <<"0", ".", "6", "6", "3">>
R_0976 == <<"0", ".", "9", "7", "6">>
R_05 == <<"0", ".", "5">>
R_0 == <<"0">>
R_1 == <<"1">>
R_Bad == <<"0", ".", "x">>

\* <key>text</key>, <real>text</real>, <string>text</string>, <dict>...</dict>
Key(text) == Elem("key", <<Chars(text)>>)
Real(text) == Elem("real", <<Chars(text)>>)
String(text) == Elem("string", <<Chars(text)>>)
Dict(children) == Elem("dict", children)

\* <plist><dict>...</dict></plist>
Plist(top) == Elem("plist", <<Dict(top)>>)

\* A color dict as iTerm writes it: the components in alphabetical order.
ColorDict(r, g, b) == <<Key(T_Blue), Real(b), Key(T_Green), Real(g), Key(T_Red), Real(r)>>

\* The components of the Dracula scheme the tests convert, per arm of the
\* match of from_iterm: three-decimal texts that scale to the expected bytes.
ItermPalette ==
    <<<<<<"0", ".", "0", "0", "0">>, <<"0", ".", "0", "0", "0">>, <<"0", ".", "0", "0", "0">>>>,
      <<<<"1", ".", "0", "0", "0">>, <<"0", ".", "3", "3", "4">>, <<"0", ".", "3", "3", "4">>>>,
      <<<<"0", ".", "3", "1", "4">>, <<"0", ".", "9", "8", "1">>, <<"0", ".", "4", "8", "3">>>>,
      <<<<"0", ".", "9", "4", "6">>, <<"0", ".", "9", "8", "1">>, <<"0", ".", "5", "5", "0">>>>,
      <<<<"0", ".", "7", "4", "2">>, <<"0", ".", "5", "7", "7">>, <<"0", ".", "9", "7", "7">>>>,
      <<<<"1", ".", "0", "0", "0">>, <<"0", ".", "4", "7", "5">>, <<"0", ".", "7", "7", "7">>>>,
      <<<<"0", ".", "5", "4", "6">>, <<"0", ".", "9", "1", "4">>, <<"0", ".", "9", "9", "3">>>>,
      <<<<"0", ".", "7", "3", "4">>, <<"0", ".", "7", "3", "4">>, <<"0", ".", "7", "3", "4">>>>,
      <<<<"0", ".", "3", "3", "4">>, <<"0", ".", "3", "3", "4">>, <<"0", ".", "3", "3", "4">>>>,
      <<<<"1", ".", "0", "0", "0">>, <<"0", ".", "3", "3", "4">>, <<"0", ".", "3", "3", "4">>>>,
      <<<<"0", ".", "3", "1", "4">>, <<"0", ".", "9", "8", "1">>, <<"0", ".", "4", "8", "3">>>>,
      <<<<"0", ".", "9", "4", "6">>, <<"0", ".", "9", "8", "1">>, <<"0", ".", "5", "5", "0">>>>,
      <<<<"0", ".", "7", "4", "2">>, <<"0", ".", "5", "7", "7">>, <<"0", ".", "9", "7", "7">>>>,
      <<<<"1", ".", "0", "0", "0">>, <<"0", ".", "4", "7", "5">>, <<"0", ".", "7", "7", "7">>>>,
      <<<<"0", ".", "5", "4", "6">>, <<"0", ".", "9", "1", "4">>, <<"0", ".", "9", "9", "3">>>>,
      <<<<"1", ".", "0", "0", "0">>, <<"1", ".", "0", "0", "0">>, <<"1", ".", "0", "0", "0">>>>,
      <<<<"0", ".", "1", "1", "8">>, <<"0", ".", "1", "2", "2">>, <<"0", ".", "1", "5", "7">>>>,
      <<<<"0", ".", "9", "7", "3">>, <<"0", ".", "9", "7", "3">>, <<"0", ".", "9", "5", "0">>>>>>

\* The white space between two elements, which the xml crate keeps as a
\* character node.
Indent == Chars(<<NL, " ">>)

RECURSIVE Interleave(_)
Interleave(nodes) ==
    IF nodes = <<>> THEN <<Indent>>
    ELSE <<Indent, IF Head(nodes).name = "dict" THEN Dict(Interleave(Head(nodes).children))
                   ELSE Head(nodes)>> \o Interleave(Tail(nodes))

\* A document naming every color once: the names in the order of the match
\* rotated by `rot`, an entry of unrecognized name in front and behind when
\* `extras`, the components of the claimed example for "Ansi 4 Color" when
\* `example`, white space between the elements when `spaced`.
FullDoc(rot, extras, example, spaced) ==
    LET n == Len(iterm_arms)
        at(i) == ((i - 1 + rot) % n) + 1
        dict(j) == IF example /\ iterm_arms[j][1] = T_Ansi4
                   THEN ColorDict(R_0792, R_0663, R_0976)
                   ELSE ColorDict(ItermPalette[j][1], ItermPalette[j][2], ItermPalette[j][3])
        extra == IF extras THEN <<Key(T_Cursor), Dict(ColorDict(R_1, R_05, R_0))>> ELSE <<>>
        top == extra \o Concat([i \in 1..n |-> <<Key(iterm_arms[at(i)][1]), Dict(dict(at(i)))>>]) \o extra
    IN  IF spaced THEN Elem("plist", Interleave(<<Dict(top)>>)) ELSE Plist(top)

FullDocs ==
    {FullDoc(rot, extras, example, spaced) :
        rot \in {0, 7}, extras \in BOOLEAN, example \in BOOLEAN, spaced \in BOOLEAN}

\* Documents with one "Ansi 4 Color" entry whose dict holds the three
\* components in any order.
ComponentTexts == {R_0792, R_0663, R_0976, R_0, R_1}

PairOrders == Permutations(1..3)

OrderedDict(p, r, g, b) ==
    LET pairs == <<<<Key(T_Red), Real(r)>>, <<Key(T_Green), Real(g)>>, <<Key(T_Blue), Real(b)>>>>
    IN  pairs[p[1]] \o pairs[p[2]] \o pairs[p[3]]

OrderedDocs ==
    {Plist(<<Key(T_Ansi4), Dict(OrderedDict(p, r, g, b))>>) :
        p \in PairOrders, r \in ComponentTexts, g \in ComponentTexts, b \in ComponentTexts}

\* Documents whose root dict is any sequence of at most MaxTop of these nodes.
TopNodes ==
    {Key(T_Ansi4), Key(T_Cursor),
     Dict(ColorDict(R_0792, R_0663, R_0976)), Dict(ColorDict(R_1, R_05, R_0)),
     Dict(<<Key(T_Alpha), Real(R_1)>>), String(T_sRGB)}

TopDocs == {Plist(top) : top \in SeqsUpTo(TopNodes, MaxTop)}

\* Documents with one "Ansi 4 Color" entry whose dict is any sequence of at
\* most MaxDictLen of these nodes.
ComponentNodes ==
    {Key(T_Red), Key(T_Green), Key(T_Alpha), Elem("key", <<>>),
     Real(R_0792), Real(R_05), Real(R_Bad), String(T_sRGB)}

DictDocs == {Plist(<<Key(T_Ansi4), Dict(d)>>) : d \in SeqsUpTo(ComponentNodes, MaxDictLen)}

\* Text that is no XML, and documents without a root dict.
BrokenDocs == {XmlError, Elem("plist", <<>>), Elem("plist", <<Indent, String(T_sRGB)>>)}

ItermDocs == FullDocs \cup OrderedDocs \cup TopDocs \cup DictDocs \cup BrokenDocs

-----------------------------------------------------------------------------
(* from_iterm as a state machine.                                          *)

InitIterm ==
    /\ op = "from_iterm"
    /\ s = <<>>
    /\ self = DefaultColor
    /\ ret = NoRet
    /\ hex = <<>>
    /\ content = <<>>
    /\ root \in ItermDocs
    /\ pos = 0
    /\ scheme = DefaultScheme
    /\ pc = "start"
    /\ outcome = NoOutcome
    /\ yaml = NoYaml

\* The (key, value) pairs of the outer loop of the document under parse.
RootPairs == iterm_pairs(get_children(root, "dict")[1])

\* `content.parse().unwrap()` and `root.get_children("dict", None).nth(0).unwrap()`
ItermStart ==
    /\ op = "from_iterm"
    /\ pc = "start"
    /\ IF root = XmlError
       THEN pc' = "panicked" /\ outcome' = PanicUnwrap(XmlParseError) /\ pos' = pos
       ELSE IF Len(get_children(root, "dict")) = 0
       THEN pc' = "panicked" /\ outcome' = Panic("unwrap on None") /\ pos' = pos
       ELSE pc' = "loop" /\ outcome' = outcome /\ pos' = 1
    /\ UNCHANGED <<op, s, self, ret, hex, content, root, scheme, yaml>>

\* The body of `for (key, value) in keys.zip(values)`, once.
ItermEntry ==
    /\ op = "from_iterm"
    /\ pc = "loop"
    /\ pos <= Len(RootPairs)
    /\ LET r == iterm_entry(scheme, RootPairs[pos][1], RootPairs[pos][2])
       IN  IF r.tag = "Ok"
           THEN /\ scheme' = r.val
                /\ pos' = pos + 1
                /\ UNCHANGED <<pc, outcome>>
           ELSE /\ pc' = "panicked"
                /\ outcome' = r.err
                /\ UNCHANGED <<scheme, pos>>
    /\ UNCHANGED <<op, s, self, ret, hex, content, root, yaml>>

\* The loop is over: from_iterm returns `scheme`.
ItermReturn ==
    /\ op = "from_iterm"
    /\ pc = "loop"
    /\ pos > Len(RootPairs)
    /\ pc' = "returned"
    /\ outcome' = Returned
    /\ UNCHANGED <<op, s, self, ret, hex, content, root, pos, scheme, yaml>>

NextIterm == ItermStart \/ ItermEntry \/ ItermReturn \/ ToYaml

SpecIterm == InitIterm /\ [][NextIterm]_vars

-----------------------------------------------------------------------------
(* Properties of Color.                                                    *)

\* The positions of the commas of a text, and the text between them.
CommaPositions(str) == {i \in 1..Len(str) : str[i] = ","}

\* Field k (from 1) of a text with exactly two commas.
FieldOf(str, k) ==
    LET c1 == CHOOSE i \in CommaPositions(str) : \A j \in CommaPositions(str) : i <= j
        c2 == CHOOSE i \in CommaPositions(str) : \A j \in CommaPositions(str) : j <= i
    IN  CASE k = 1 -> SubSeq(str, 1, c1 - 1)
          [] k = 2 -> SubSeq(str, c1 + 1, c2 - 1)
          [] OTHER -> SubSeq(str, c2 + 1, Len(str))

\* A decimal integer in 0..255, in the notation of an unsigned integer: an
\* optional plus sign, then one or more digits (leading zeros allowed).
Unsigned(f) == IF Len(f) > 0 /\ f[1] = "+" THEN Tail(f) ELSE f

RECURSIVE StripZeros(_)
StripZeros(f) == IF Len(f) > 1 /\ f[1] = "0" THEN StripZeros(Tail(f)) ELSE f

DigitValue(c) ==
    CASE c = "0" -> 0 [] c = "1" -> 1 [] c = "2" -> 2 [] c = "3" -> 3 [] c = "4" -> 4
      [] c = "5" -> 5 [] c = "6" -> 6 [] c = "7" -> 7 [] c = "8" -> 8 [] c = "9" -> 9

\* The number a text of at most three digits denotes.
PlaceValue(z) ==
    CASE Len(z) = 1 -> DigitValue(z[1])
      [] Len(z) = 2 -> 10 * DigitValue(z[1]) + DigitValue(z[2])
      [] Len(z) = 3 -> 100 * DigitValue(z[1]) + 10 * DigitValue(z[2]) + DigitValue(z[3])

IsDecimalU8(f) ==
    /\ Len(Unsigned(f)) > 0
    /\ \A i \in 1..Len(Unsigned(f)) : Unsigned(f)[i] \in {"0", "1", "2", "3", "4", "5", "6", "7", "8", "9"}
    /\ Len(StripZeros(Unsigned(f))) <= 3
    /\ PlaceValue(StripZeros(Unsigned(f))) <= 255

DecimalValue(f) == PlaceValue(StripZeros(Unsigned(f)))

FromStringDone == op = "from_string" /\ pc = "done"

\* C2: for every "R,G,B" whose three components are decimal integers in
\* 0..255, from_string returns Ok with red = R, green = G and blue = B.
C2_FromStringRecoversChannels ==
    (/\ FromStringDone
     /\ Cardinality(CommaPositions(s)) = 2
     /\ \A k \in 1..3 : IsDecimalU8(FieldOf(s, k)))
        => ret = Ok(MkColor(DecimalValue(FieldOf(s, 1)),
                            DecimalValue(FieldOf(s, 2)),
                            DecimalValue(FieldOf(s, 3))))

\* "12,3,255" has been parsed into three different channels.
C2_Witness ==
    /\ FromStringDone
    /\ s = <<"1", "2", ",", "3", ",", "2", "5", "5">>
    /\ ret = Ok(MkColor(12, 3, 255))

\* The first field of a three-field text that is no decimal integer in 0..255.
FirstBadField(str) ==
    FieldOf(str, CHOOSE k \in 1..3 :
                    /\ ~IsDecimalU8(FieldOf(str, k))
                    /\ \A j \in 1..(k - 1) : IsDecimalU8(FieldOf(str, j)))

\* C3: from_string returns InvalidFormat exactly when the text does not have
\* exactly three comma-separated fields; with three fields of which one is
\* no decimal integer in 0..255 it returns ParseInt carrying the parse
\* failure of that field (the first such); an error carries no Color.
C3_FromStringErrors ==
    FromStringDone =>
        /\ (ret = Err(InvalidFormat)) <=> (Cardinality(CommaPositions(s)) # 2)
        /\ (/\ Cardinality(CommaPositions(s)) = 2
            /\ \E k \in 1..3 : ~IsDecimalU8(FieldOf(s, k)))
              => /\ ret = Err(ParseInt(u8_from_str(FirstBadField(s)).err))
                 /\ ret.err.cause \in {"Empty", "InvalidDigit", "PosOverflow"}
        /\ ret.tag = "Err" => DOMAIN ret = {"tag", "err"}

\* A text with three fields whose last one is out of range has been refused
\* with that field's overflow.
C3_Witness ==
    /\ FromStringDone
    /\ s = <<"0", ",", "1", "2", ",", "2", "5", "6">>
    /\ ret = Err(ParseInt("PosOverflow"))

LowerHex == <<"0", "1", "2", "3", "4", "5", "6", "7", "8", "9", "a", "b", "c", "d", "e", "f">>

TwoHexDigits(n) == <<LowerHex[(n \div 16) + 1], LowerHex[(n % 16) + 1]>>

ToHexDone == op = "to_hex" /\ pc = "done"

\* C4: to_hex returns "0x" and two zero-padded lowercase hexadecimal digits
\* for red, then green, then blue; (123,4,255) gives "0x7b04ff" and
\* (12,3,255) gives "0x0c03ff"; distinct Colors give distinct strings.
C4_ToHexFormat ==
    ToHexDone =>
        /\ hex = <<"0", "x">> \o TwoHexDigits(self.red) \o TwoHexDigits(self.green)
                              \o TwoHexDigits(self.blue)
        /\ Len(hex) = 8
        /\ self = MkColor(123, 4, 255) => hex = <<"0", "x", "7", "b", "0", "4", "f", "f">>
        /\ self = MkColor(12, 3, 255) => hex = <<"0", "x", "0", "c", "0", "3", "f", "f">>
        /\ \A c \in ColorInputs : c # self => to_hex(c) # hex

\* A Color with a one-digit channel has been formatted.
C4_Witness ==
    /\ ToHexDone
    /\ self = MkColor(123, 4, 255)
    /\ hex = <<"0", "x", "7", "b", "0", "4", "f", "f">>

-----------------------------------------------------------------------------
(* Properties of from_minttyrc.                                            *)

RecognizedNames ==
    {N_ForegroundColour, N_BackgroundColour, N_Black, N_Red, N_Green, N_Yellow,
     N_Blue, N_Magenta, N_Cyan, N_White, N_BoldBlack, N_BoldRed, N_BoldGreen,
     N_BoldYellow, N_BoldBlue, N_BoldMagenta, N_BoldCyan, N_BoldWhite}

\* The key of each slot: the color's name, "Bold" before it for the bright
\* variant, and the two "...Colour" keys.
KeyOfSlot(slot) ==
    CASE slot = "foreground" -> N_ForegroundColour
      [] slot = "background" -> N_BackgroundColour
      [] slot = "black" -> N_Black
      [] slot = "red" -> N_Red
      [] slot = "green" -> N_Green
      [] slot = "yellow" -> N_Yellow
      [] slot = "blue" -> N_Blue
      [] slot = "magenta" -> N_Magenta
      [] slot = "cyan" -> N_Cyan
      [] slot = "white" -> N_White
      [] slot = "bright_black" -> N_BoldBlack
      [] slot = "bright_red" -> N_BoldRed
      [] slot = "bright_green" -> N_BoldGreen
      [] slot = "bright_yellow" -> N_BoldYellow
      [] slot = "bright_blue" -> N_BoldBlue
      [] slot = "bright_magenta" -> N_BoldMagenta
      [] slot = "bright_cyan" -> N_BoldCyan
      [] slot = "bright_white" -> N_BoldWhite

EqualsPositions(line) == {i \in 1..Len(line) : line[i] = "="}

FirstEquals(line) == CHOOSE i \in EqualsPositions(line) : \A j \in EqualsPositions(line) : i <= j

\* The name of a line: the text before its first "=" (a line without "="
\* has no name).
HasName(line) == EqualsPositions(line) # {}
NameOf(line) == SubSeq(line, 1, FirstEquals(line) - 1)
ValueOf(line) == SubSeq(line, FirstEquals(line) + 1, Len(line))

IsColorText(v) ==
    /\ Cardinality(CommaPositions(v)) = 2
    /\ \A k \in 1..3 : IsDecimalU8(FieldOf(v, k))

ColorOfText(v) ==
    MkColor(DecimalValue(FieldOf(v, 1)), DecimalValue(FieldOf(v, 2)), DecimalValue(FieldOf(v, 3)))

\* A valid line: Name=R,G,B with a recognized name and R, G, B in 0..255.
ValidLine(line) ==
    /\ Cardinality(EqualsPositions(line)) = 1
    /\ NameOf(line) \in RecognizedNames
    /\ IsColorText(ValueOf(line))

\* The names of the lines `ls`, in order ("=" for a line without a name:
\* no name holds an "=").
RECURSIVE LineNames(_)
LineNames(ls) ==
    IF ls = <<>> THEN <<>>
    ELSE <<IF HasName(Head(ls)) THEN NameOf(Head(ls)) ELSE <<"=">> >> \o LineNames(Tail(ls))

\* Whether one of the lines named `names` is named `name`, and the last one.
IsNamed(names, name) == \E i \in 1..Len(names) : names[i] = name

LastNamed(names, name) ==
    CHOOSE i \in 1..Len(names) : names[i] = name /\ \A j \in (i + 1)..Len(names) : names[j] # name

HexOf(c) == <<"0", "x">> \o TwoHexDigits(c.red) \o TwoHexDigits(c.green) \o TwoHexDigits(c.blue)

MinttyOp == op = "from_minttyrc"

\* The entries of the reference output, in order: the key whose color each
\* holds and the text that precedes the color.
ReferenceEntries ==
    <<<<N_BackgroundColour, "colors:\n  # Default colors\n  primary:\n    background: '">>,
      <<N_ForegroundColour, "'\n    foreground: '">>,
      <<N_Black, "'\n\n  # Normal colors\n  normal:\n    black:   '">>,
      <<N_Red, "'\n    red:     '">>,
      <<N_Green, "'\n    green:   '">>,
      <<N_Yellow, "'\n    yellow:  '">>,
      <<N_Blue, "'\n    blue:    '">>,
      <<N_Magenta, "'\n    magenta: '">>,
      <<N_Cyan, "'\n    cyan:    '">>,
      <<N_White, "'\n    white:   '">>,
      <<N_BoldBlack, "'\n\n  # Bright colors\n  bright:\n    black:   '">>,
      <<N_BoldRed, "'\n    red:     '">>,
      <<N_BoldGreen, "'\n    green:   '">>,
      <<N_BoldYellow, "'\n    yellow:  '">>,
      <<N_BoldBlue, "'\n    blue:    '">>,
      <<N_BoldMagenta, "'\n    magenta: '">>,
      <<N_BoldCyan, "'\n    cyan:    '">>,
      <<N_BoldWhite, "'\n    white:   '">>>>

\* C1: for an input whose every line is Name=R,G,B with a recognized name
\* and R, G, B in 0..255, from_minttyrc does not fail and to_yaml yields the
\* fixed template, in which each entry whose key the input names holds the
\* hex of that key's line (the last one, should the key be repeated) and of
\* no other.
C1_MinttyToYaml ==
    (/\ MinttyOp
     /\ pc \in {"panicked", "rendered"}
     /\ \A i \in 1..Len(lines(content)) : ValidLine(lines(content)[i]))
        => LET ls == lines(content)
               names == LineNames(ls)
           IN  /\ pc = "rendered"
               /\ yaml.tail = "'\n"
               /\ Len(yaml.pieces) = Len(ReferenceEntries)
               /\ \A i \in 1..Len(ReferenceEntries) :
                    /\ yaml.pieces[i].literal = ReferenceEntries[i][2]
                    /\ IsNamed(names, ReferenceEntries[i][1])
                         => yaml.pieces[i].arg =
                              HexOf(ColorOfText(ValueOf(ls[LastNamed(names, ReferenceEntries[i][1])])))

\* The file of the eighteen palette colors in the order of the match has
\* been converted: primary.foreground is 0xf8f8f2, bright.red is 0xff6e67.
C1_Witness ==
    /\ MinttyOp
    /\ pc = "rendered"
    /\ content = FullFile(0, FALSE, 0, <<NL>>, TRUE)
    /\ yaml.pieces[2].arg = <<"0", "x", "f", "8", "f", "8", "f", "2">>
    /\ yaml.pieces[12].arg = <<"0", "x", "f", "f", "6", "e", "6", "7">>

\* The first line that is not valid, if any.
HasBadLine(ls) == \E i \in 1..Len(ls) : ~ValidLine(ls[i])
FirstBadLine(ls) == ls[CHOOSE i \in 1..Len(ls) : ~ValidLine(ls[i]) /\ \A j \in 1..(i - 1) : ValidLine(ls[j])]

HasUnknownName(line) == HasName(line) /\ NameOf(line) \notin RecognizedNames

MinttyEnded == MinttyOp /\ pc \in {"panicked", "returned", "rendered"}

\* The panics that report a violation of the format, as opposed to a
\* number that does not parse.
FormatPanics == {Panic("Invalid line"), Panic("Invalid color name"), PanicUnwrap(InvalidFormat)}

\* C7, as claimed: any input with a line of unrecognized name ends in the
\* InvalidFormat failure, whatever the line's value and wherever it occurs.
C7_AsClaimed ==
    (/\ MinttyEnded
     /\ \E i \in 1..Len(lines(content)) : HasUnknownName(lines(content)[i]))
        => outcome \in FormatPanics

\* C7, amended: any input with a line of unrecognized name makes the parse
\* fail, and no ColorScheme is returned; the failure is that of the first
\* line that is not valid: when that line has an unrecognized name, it is
\* the invalid-name panic if the line's value is a color, and the error of
\* the value (InvalidFormat or ParseInt) if it is not.
C7_UnknownNameFails ==
    (/\ MinttyEnded
     /\ \E i \in 1..Len(lines(content)) : HasUnknownName(lines(content)[i]))
        => /\ pc = "panicked"
           /\ outcome.kind = "Panic"
           /\ yaml = NoYaml
           /\ LET bad == FirstBadLine(lines(content))
              IN  (HasUnknownName(bad) /\ Cardinality(EqualsPositions(bad)) = 1)
                    => IF IsColorText(ValueOf(bad))
                       THEN outcome = Panic("Invalid color name")
                       ELSE /\ outcome = PanicUnwrap(from_string(ValueOf(bad)).err)
                            /\ outcome.err.kind \in {"InvalidFormat", "ParseInt"}

\* A valid line, then a line of unrecognized name with a color as value:
\* the parse has ended in the invalid-name panic.
C7_Witness ==
    /\ MinttyOp
    /\ pc = "panicked"
    /\ Len(lines(content)) = 2
    /\ ValidLine(lines(content)[1])
    /\ HasName(lines(content)[2])
    /\ NameOf(lines(content)[2]) = N_Pink
    /\ outcome = Panic("Invalid color name")

MaxPermLen == 4

\* Reorderings of n lines: every one for short inputs, the rotations and
\* their reversals for longer ones.
Reorderings(n) ==
    IF n <= MaxPermLen THEN Permutations(1..n)
    ELSE {[i \in 1..n |-> ((i - 1 + r) % n) + 1] : r \in 0..(n - 1)}
            \cup {[i \in 1..n |-> n - ((i - 1 + r) % n)] : r \in 0..(n - 1)}

\* C9: after any sequence of valid lines every slot holds the color of the
\* last line naming its key, black if none does; a line changes only the
\* slot of its key; and when no key is repeated, every reordering of the
\* lines gives the same ColorScheme.
C9_LastWriteWins ==
    (MinttyOp /\ pc \in {"loop", "returned"})
        => LET ls == lines(content)
               done == SubSeq(ls, 1, pos - 1)
               names == LineNames(done)
           IN  /\ \A i \in 1..Len(done) : ValidLine(done[i])
               /\ \A slot \in Slots :
                    scheme[slot] = IF IsNamed(names, KeyOfSlot(slot))
                                   THEN ColorOfText(ValueOf(done[LastNamed(names, KeyOfSlot(slot))]))
                                   ELSE MkColor(0, 0, 0)
               /\ (pc = "loop" /\ pos <= Len(ls) /\ ValidLine(ls[pos]))
                    => LET r == minttyrc_line(scheme, ls[pos])
                       IN  /\ r.tag = "Ok"
                           /\ \A slot \in Slots :
                                r.val[slot] = IF KeyOfSlot(slot) = NameOf(ls[pos])
                                              THEN ColorOfText(ValueOf(ls[pos]))
                                              ELSE scheme[slot]
               /\ (pc = "returned" /\ \A i, j \in 1..Len(names) : names[i] = names[j] => i = j)
                    => \A p \in Reorderings(Len(ls)) :
                         minttyrc_loop(DefaultScheme, [i \in 1..Len(ls) |-> ls[p[i]]], 1) = Ok(scheme)

\* A key has been written twice with different colors and holds the second.
C9_Witness ==
    /\ MinttyOp
    /\ pc = "returned"
    /\ Len(lines(content)) = 3
    /\ LineNames(lines(content)) = <<N_Red, N_BoldRed, N_Red>>
    /\ scheme.red = MkColor(255, 0, 16)
    /\ scheme.bright_red = MkColor(1, 2, 3)
    /\ scheme.bright_black = MkColor(0, 0, 0)

-----------------------------------------------------------------------------
(* Properties of from_iterm.                                               *)

ItermOp == op = "from_iterm"

\* The children of the root dict of a document that has one.
HasTop(doc) == doc.kind = "element" /\ \E i \in 1..Len(doc.children) : IsElemNamed(doc.children[i], "dict")

TopOf(doc) ==
    doc.children[CHOOSE i \in 1..Len(doc.children) :
                    /\ IsElemNamed(doc.children[i], "dict")
                    /\ \A j \in 1..(i - 1) : ~IsElemNamed(doc.children[j], "dict")].children

\* The elements among some children: the white space between them put aside.
Elements(children) == SelectSeq(children, LAMBDA node : node.kind = "element")

IsKey(node) ==
    /\ IsElemNamed(node, "key")
    /\ Len(node.children) = 1
    /\ node.children[1].kind = "characters"

IsReal(node) ==
    /\ IsElemNamed(node, "real")
    /\ Len(node.children) = 1
    /\ node.children[1].kind = "characters"

TextOf(node) == node.children[1].text

\* A number in the notation of the documents: digits with at most one ".",
\* not "." alone, in the range [0, 1].
IsFraction(text) ==
    /\ Len(text) > 0
    /\ \A i \in 1..Len(text) : text[i] \in {"0", "1", "2", "3", "4", "5", "6", "7", "8", "9", "."}
    /\ Cardinality({i \in 1..Len(text) : text[i] = "."}) <= 1
    /\ text # <<".">>
    /\ f32_from_str(text).val.num <= f32_from_str(text).val.den

ComponentNames == {T_Red, T_Green, T_Blue}

\* Dict semantics: the elements are keys at the odd places, each followed
\* by its value at the next even place.
IsPaired(elements) ==
    /\ Len(elements) % 2 = 0
    /\ \A i \in 1..Len(elements) : (i % 2 = 1) => IsKey(elements[i])

\* A color dict of the expected shape: component keys, each followed by a
\* real that holds a number.
IsColorDict(node) ==
    /\ IsElemNamed(node, "dict")
    /\ LET es == Elements(node.children)
       IN  /\ IsPaired(es)
           /\ \A i \in 1..Len(es) :
                IF i % 2 = 1 THEN TextOf(es[i]) \in ComponentNames
                ELSE IsReal(es[i]) /\ IsFraction(TextOf(es[i]))

\* A document of the expected shape: a root dict of keys, each followed by a
\* color dict.
WellFormed(doc) ==
    /\ HasTop(doc)
    /\ LET es == Elements(TopOf(doc))
       IN  /\ IsPaired(es)
           /\ \A i \in 1..Len(es) : (i % 2 = 0) => IsColorDict(es[i])

\* The element that follows the last key of text `name` among `elements`
\* (the key's own value), if there is such a key and it is not the last element.
HasOwnValue(elements, name) ==
    \E i \in 1..(Len(elements) - 1) : IsKey(elements[i]) /\ TextOf(elements[i]) = name

OwnValue(elements, name) ==
    elements[1 + CHOOSE i \in 1..(Len(elements) - 1) :
                    /\ IsKey(elements[i]) /\ TextOf(elements[i]) = name
                    /\ \A j \in (i + 1)..(Len(elements) - 1) :
                         ~(IsKey(elements[j]) /\ TextOf(elements[j]) = name)]

\* The number that follows component key `name` in a color dict, as a text
\* ("" when the key is absent or is not followed by a real).
ComponentText(dict, name) ==
    LET es == Elements(dict.children)
    IN  IF HasOwnValue(es, name) /\ IsReal(OwnValue(es, name)) THEN TextOf(OwnValue(es, name)) ELSE <<>>

\* The examples of the scaling: a component times 255, truncated.
Truncated(text) ==
    CASE text = R_0792 -> 201
      [] text = R_0663 -> 169
      [] text = R_0976 -> 248
      [] text = R_0 -> 0
      [] text = R_1 -> 255
      [] text = R_05 -> 127

TruncatedTexts == {R_0792, R_0663, R_0976, R_0, R_1, R_05}

\* The "Ansi 4 Color" entry of a well-formed document has the components of
\* the example.
Ansi4IsExample(doc) ==
    /\ HasOwnValue(Elements(TopOf(doc)), T_Ansi4)
    /\ LET dict == OwnValue(Elements(TopOf(doc)), T_Ansi4)
       IN  /\ ComponentText(dict, T_Red) = R_0792
           /\ ComponentText(dict, T_Green) = R_0663
           /\ ComponentText(dict, T_Blue) = R_0976

ItermEnded == ItermOp /\ pc \in {"panicked", "rendered"}

\* C5, as claimed: with Red=0.792, Green=0.663, Blue=0.976 for "Ansi 4
\* Color", normal.blue renders as '0xcaa9fa'.
C5_AsClaimed ==
    (ItermEnded /\ WellFormed(root) /\ Ansi4IsExample(root))
        => /\ pc = "rendered"
           /\ yaml.pieces[7].arg = <<"0", "x", "c", "a", "a", "9", "f", "a">>

\* C5, amended: for a well-formed document whose "Ansi 4 Color" entry has
\* Red=0.792, Green=0.663, Blue=0.976, from_iterm returns and to_yaml renders
\* normal.blue as '0xc9a9f8'; in general each channel is the component
\* scaled by 255 and truncated toward zero.
C5_ScaledAndTruncated ==
    (ItermEnded /\ WellFormed(root))
        => /\ pc = "rendered"
           /\ yaml.pieces[7].literal = "'\n    blue:    '"
           /\ Ansi4IsExample(root)
                => /\ scheme.blue = MkColor(201, 169, 248)
                   /\ yaml.pieces[7].arg = <<"0", "x", "c", "9", "a", "9", "f", "8">>
           /\ HasOwnValue(Elements(TopOf(root)), T_Ansi4)
                => LET dict == OwnValue(Elements(TopOf(root)), T_Ansi4)
                       r == ComponentText(dict, T_Red)
                       g == ComponentText(dict, T_Green)
                       b == ComponentText(dict, T_Blue)
                   IN  {r, g, b} \subseteq TruncatedTexts
                         => yaml.pieces[7].arg = HexOf(MkColor(Truncated(r), Truncated(g), Truncated(b)))

\* The full document with the example as "Ansi 4 Color", white space
\* between its elements, has been converted.
C5_Witness ==
    /\ ItermOp
    /\ pc = "rendered"
    /\ root = FullDoc(0, TRUE, TRUE, TRUE)
    /\ WellFormed(root)
    /\ Ansi4IsExample(root)
    /\ yaml.pieces[7].arg = <<"0", "x", "c", "9", "a", "9", "f", "8">>

\* The document with a key and its value put in front of the i-th child of
\* the root dict.
InsertAt(doc, i, key, value) ==
    LET k == CHOOSE j \in 1..Len(doc.children) :
                /\ IsElemNamed(doc.children[j], "dict")
                /\ \A l \in 1..(j - 1) : ~IsElemNamed(doc.children[l], "dict")
        top == doc.children[k].children
    IN  [doc EXCEPT !.children[k].children =
            SubSeq(top, 1, i - 1) \o <<key, value>> \o SubSeq(top, i, Len(top))]

\* Values a key of unrecognized name may come with.
OtherValues ==
    {Dict(ColorDict(R_1, R_05, R_0)), Dict(<<Key(T_Alpha), Real(R_1)>>),
     Dict(<<>>), String(T_sRGB), Real(R_05)}

\* C6, as claimed: adding a key of unrecognized name and its value, whatever
\* it holds, anywhere between the entries of a well-formed document leaves
\* the parse successful and every slot as it is without them.
C6_AsClaimed ==
    (ItermOp /\ pc = "returned" /\ WellFormed(root))
        => \A i \in 1..(Len(TopOf(root)) + 1), value \in OtherValues :
             from_iterm(InsertAt(root, i, Key(T_Cursor), value)) = Ok(scheme)

\* The color a color dict denotes when every component key is paired with
\* the value that follows it: black where a component is absent.
OwnColor(dict) ==
    LET channel(name) ==
            IF ComponentText(dict, name) # <<>> /\ IsFraction(ComponentText(dict, name))
            THEN scale_to_u8(f32_from_str(ComponentText(dict, name)).val)
            ELSE 0
    IN  MkColor(channel(T_Red), channel(T_Green), channel(T_Blue))

\* C10, as claimed: in a document under dict semantics (keys at the odd
\* places, each followed by its value, of whatever kind), every recognized
\* top-level name followed by a dict under dict semantics is assigned the
\* color of that dict, every component being the number that follows its key.
C10_AsClaimed ==
    (ItermOp /\ pc = "returned" /\ IsPaired(Elements(TopOf(root))))
        => \A a \in 1..Len(iterm_arms) :
             LET es == Elements(TopOf(root))
                 name == iterm_arms[a][1]
             IN  (/\ HasOwnValue(es, name)
                  /\ IsElemNamed(OwnValue(es, name), "dict")
                  /\ IsPaired(Elements(OwnValue(es, name).children)))
                   => scheme[iterm_arms[a][2]] = OwnColor(OwnValue(es, name))

\* A component key of a color dict with no number to its name: nothing
\* follows it, or no real, or a real whose text is no number.
HasFaultyComponent(dict) ==
    LET es == Elements(dict.children)
    IN  \E i \in 1..Len(es) :
          /\ IsKey(es[i]) /\ TextOf(es[i]) \in ComponentNames
          /\ \/ i = Len(es)
             \/ ~IsReal(es[i + 1])
             \/ f32_from_str(TextOf(es[i + 1])).tag = "Err"

\* An entry with a structural or numeric error: a key of recognized name
\* that no dict follows, or whose dict has a component in error.
HasFaultyEntry(doc) ==
    LET es == Elements(TopOf(doc))
    IN  \E i \in 1..Len(es) :
          /\ IsKey(es[i])
          /\ \E a \in 1..Len(iterm_arms) : TextOf(es[i]) = iterm_arms[a][1]
          /\ \/ i = Len(es)
             \/ ~IsElemNamed(es[i + 1], "dict")
             \/ HasFaultyComponent(es[i + 1])

\* C8, as claimed: a document with an entry in error never makes from_iterm
\* return a ColorScheme.
C8_AsClaimed ==
    (ItermOp /\ pc \in {"returned", "rendered"}) => ~HasFaultyEntry(root)

=============================================================================
